---- MODULE Spec2Model ----
(***************************************************************************)
(* django_comments_xtd/views.py: comment confirmation and follow-up        *)
(* notification.                                                           *)
(*                                                                         *)
(* The XtdComment table is a sequence of rows, the id of a row being its   *)
(* position (the code never deletes a row).  A handler is a little state   *)
(* machine over a request record (pc, locals, what it has sent so far);    *)
(* Step runs one statement group of the handler.  Spec runs each handler   *)
(* to completion in one action (Run), SpecConc interleaves the steps of    *)
(* concurrent requests, SpecNotify applies notify_comment_followers to     *)
(* arbitrary tables.                                                       *)
(*                                                                         *)
(* Assumed of the collaborators: the target object of a comment exists     *)
(* (model._default_manager.get does not raise), templates render and mail  *)
(* is delivered to the backend without an exception.                       *)
(***************************************************************************)
EXTENDS Integers, Sequences, FiniteSets

VARIABLES
    COMMENTS_XTD_CONFIRM_EMAIL, \* the setting, read once at import
    table,      \* XtdComment rows, in id order
    issued,     \* keys sent out in confirmation-request mails
    confirmed,  \* keys whose confirm request ended in the redirect
    discarded,  \* keys whose confirm request was discarded by a receiver
    rounds,     \* ids of the rows notify_comment_followers was run for
    last,       \* the request that completed last
    inflight,   \* SpecConc: the requests being handled, by worker
    nops        \* number of requests started

vars == <<COMMENTS_XTD_CONFIRM_EMAIL, table, issued, confirmed, discarded,
          rounds, last, inflight, nops>>

---------------------------------------------------------------------------
\* Bounds.

MaxOps == 3
MaxTable == 3

None == "None"
Users == {None, "u1"}
Names == {"ann"}
Emails == {"a@x", "b@x"}
Dates == {1, 2}
ContentTypes == {"blog.entry", "news.story"}
Pks == {1}
Texts == {"hi"}
Receivers == <<"r1", "r2">>
Responses == {"None", "True", "False"}
Workers == {1, 2}

CommentsOver(users, pks, publics) ==
    [user : users, user_name : Names, user_email : Emails,
     submit_date : Dates, content_type : ContentTypes, object_pk : pks,
     comment : Texts, followup : BOOLEAN, is_public : publics]

\* The comments the comment form can hand to the handlers.  The registered
\* user u1 posts under the address of the account, a@x.
Comments ==
    { c \in CommentsOver(Users, Pks, {TRUE}) :
          c.user = None \/ c.user_email = "a@x" }

---------------------------------------------------------------------------
\* Collaborators.

is_authenticated(user) == user # None

COMMENTS_XTD_SALT == "salt"

\* signed.dumps: the payload with a signature only the holder of the salt
\* can compute.
signed_dumps(obj, extra_key) ==
    [wellformed |-> TRUE, payload |-> obj, sig |-> <<extra_key, obj>>]

\* signed.loads: "ValueError" for a key that does not decode, "BadSignature"
\* for one whose signature is not that of its payload, else "ok".
signed_loads_error(key, extra_key) ==
    IF ~key.wellformed THEN "ValueError"
    ELSE IF key.sig # <<extra_key, key.payload>> THEN "BadSignature"
    ELSE "ok"

signed_loads(key, extra_key) == key.payload

\* Keys a client can present without the salt: an issued key, an issued key
\* with its payload or signature altered, or garbage.
Tampered(key) ==
    { [key EXCEPT !.sig = <<"guess", key.payload>>],
      [key EXCEPT !.payload.followup = ~key.payload.followup] }

Garbage(c) == [wellformed |-> FALSE, payload |-> c, sig |-> <<"", c>>]

---------------------------------------------------------------------------
\* The XtdComment table.

\* XtdComment(**tmp_comment): a row with the fields of the comment.
XtdComment(tmp_comment, id) ==
    [id |-> id,
     user |-> tmp_comment.user,
     user_name |-> tmp_comment.user_name,
     user_email |-> tmp_comment.user_email,
     submit_date |-> tmp_comment.submit_date,
     content_type |-> tmp_comment.content_type,
     object_pk |-> tmp_comment.object_pk,
     comment |-> tmp_comment.comment,
     followup |-> tmp_comment.followup,
     is_public |-> tmp_comment.is_public]

Rows(tbl) == { tbl[i] : i \in 1..Len(tbl) }

\* Variant: the query also filters on the content type.
SameTriple_AndContentType(row, comment) ==
    /\ row.user_name = comment.user_name
    /\ row.user_email = comment.user_email
    /\ row.submit_date = comment.submit_date
    /\ row.content_type = comment.content_type

\* The rows the query of _comment_exists selects.
SameTriple(row, comment) ==
    /\ row.user_name = comment.user_name
    /\ row.user_email = comment.user_email
    /\ row.submit_date = comment.submit_date

\* Variant: count() > 1 for count() > 0.
_comment_exists_MoreThanOne(tbl, comment) ==
    Cardinality({ i \in 1..Len(tbl) : SameTriple(tbl[i], comment) }) > 1

_comment_exists(tbl, comment) ==
    Cardinality({ i \in 1..Len(tbl) : SameTriple(tbl[i], comment) }) > 0

\* _create_comment: the table after comment.save(); the new row is the last.
_create_comment(tbl, tmp_comment) ==
    Append(tbl, [XtdComment(tmp_comment, Len(tbl) + 1) EXCEPT !.is_public = TRUE])

---------------------------------------------------------------------------
\* Mail.

\* Variant: the filter without followup=True.
IsPrevious_NoFollowup(row, comment) ==
    /\ row.object_pk = comment.object_pk
    /\ row.is_public = TRUE
    /\ row.id # comment.id

\* The filter of notify_comment_followers.
IsPrevious(row, comment) ==
    /\ row.object_pk = comment.object_pk
    /\ row.is_public = TRUE
    /\ row.followup = TRUE
    /\ row.id # comment.id

previous_comments(tbl, comment) ==
    LET Test(row) == IsPrevious(row, comment) IN SelectSeq(tbl, Test)

NoFollowers == [e \in {} |-> ""]

\* followers[instance.user_email] = instance.user_name, over the instances
\* in order: a later instance overwrites the name of an earlier one.
RECURSIVE FollowersOf(_)
FollowersOf(instances) ==
    IF instances = <<>> THEN NoFollowers
    ELSE LET n == Len(instances)
             f == FollowersOf(SubSeq(instances, 1, n - 1))
             instance == instances[n]
         IN  [e \in DOMAIN f \cup {instance.user_email} |->
                 IF e = instance.user_email THEN instance.user_name ELSE f[e]]

\* for email, name in followers.iteritems(): send_mail(..., [email])
RECURSIVE SendFollowups(_, _)
SendFollowups(followers, comment) ==
    IF DOMAIN followers = {} THEN <<>>
    ELSE LET email == CHOOSE e \in DOMAIN followers : TRUE
             rest == [e \in DOMAIN followers \ {email} |-> followers[e]]
         IN  <<[to |-> <<email>>, user_name |-> followers[email],
                about |-> comment.id]>>
             \o SendFollowups(rest, comment)

\* The follow-up mails one call sends, in the order sent.
notify_comment_followers(tbl, comment) ==
    SendFollowups(FollowersOf(previous_comments(tbl, comment)), comment)

\* The one mail of send_email_confirmation_request.
send_email_confirmation_request(comment, key) ==
    [to |-> <<comment.user_email>>, key |-> key]

---------------------------------------------------------------------------
\* Requests.  A request record holds the handler's position (pc), its
\* locals, and what it has done so far.

Request(kind, comment, key, responses) ==
    [kind |-> kind, pc |-> "start", comment |-> comment, key |-> key,
     responses |-> responses, new |-> 0, outcome |-> "none",
     signal |-> FALSE, requests |-> <<>>, followups |-> <<>>,
     events |-> <<>>]

Idle == [Request("idle", <<>>, <<>>, <<>>) EXCEPT !.pc = "done"]

World == [table |-> table, issued |-> issued, confirmed |-> confirmed,
          discarded |-> discarded, rounds |-> rounds]

Mailed(mails) == [i \in 1..Len(mails) |-> "followup_mail"]

\* Variant: "or COMMENTS_XTD_CONFIRM_EMAIL" for "or not ...".
PostsImmediately_NoNot(comment) ==
    is_authenticated(comment.user) \/ COMMENTS_XTD_CONFIRM_EMAIL

\* if ((comment.user and comment.user.is_authenticated())
\*     or not COMMENTS_XTD_CONFIRM_EMAIL):
PostsImmediately(comment) ==
    is_authenticated(comment.user) \/ ~COMMENTS_XTD_CONFIRM_EMAIL

\* on_comment_was_posted, one statement group at a time.
on_comment_was_posted_step(w, r) ==
    LET comment == r.comment[1] IN
    CASE r.pc = "start" ->
           IF PostsImmediately(comment)
           THEN [w |-> w, r |-> [r EXCEPT !.pc = "exists"]]
           ELSE [w |-> w, r |-> [r EXCEPT !.pc = "request"]]
      [] r.pc = "exists" ->
           IF ~_comment_exists(w.table, comment)
           THEN [w |-> w,
                 r |-> [r EXCEPT !.pc = "create",
                                 !.events = Append(@, "query")]]
           ELSE [w |-> w,
                 r |-> [r EXCEPT !.pc = "done", !.outcome = "exists",
                                 !.events = Append(@, "query")]]
      [] r.pc = "create" ->
           LET tbl == _create_comment(w.table, comment) IN
           [w |-> [w EXCEPT !.table = tbl],
            r |-> [r EXCEPT !.pc = "notify", !.new = Len(tbl),
                            !.events = Append(@, "save")]]
      [] r.pc = "notify" ->
           LET mails == notify_comment_followers(w.table, w.table[r.new]) IN
           [w |-> [w EXCEPT !.rounds = Append(@, r.new)],
            r |-> [r EXCEPT !.pc = "done", !.outcome = "posted",
                            !.followups = mails,
                            !.events = @ \o Mailed(mails)]]
      [] r.pc = "request" ->
           LET key == signed_dumps(comment, COMMENTS_XTD_SALT) IN
           [w |-> [w EXCEPT !.issued = @ \cup {key}],
            r |-> [r EXCEPT !.pc = "done", !.outcome = "held",
                            !.key = <<key>>,
                            !.requests =
                                <<send_email_confirmation_request(comment, key)>>,
                            !.events = Append(@, "request_mail")]]

\* Variant: "if not response" for "if response == False" (None is falsy).
SomeReceiverDiscards_Falsy(responses) ==
    \E i \in 1..Len(responses) : responses[i] \in {"False", "None"}

\* Variant: only the first receiver's response is looked at.
SomeReceiverDiscards_FirstOnly(responses) ==
    responses # <<>> /\ Head(responses) = "False"

\* for (receiver, response) in responses: if response == False: return ...
RECURSIVE SomeReceiverDiscards(_)
SomeReceiverDiscards(responses) ==
    IF responses = <<>> THEN FALSE
    ELSE IF Head(responses) = "False" THEN TRUE
    ELSE SomeReceiverDiscards(Tail(responses))

\* Variant: "except signed.BadSignature" alone.
KeyRejected_BadSignatureOnly(key) ==
    signed_loads_error(key, COMMENTS_XTD_SALT) = "BadSignature"

\* try: signed.loads(key, ...) except (ValueError, signed.BadSignature)
KeyRejected(key) ==
    signed_loads_error(key, COMMENTS_XTD_SALT) \in {"ValueError", "BadSignature"}

\* confirm, one statement group at a time.
confirm_step(w, r) ==
    LET key == r.key[1] IN
    CASE r.pc = "start" ->
           IF KeyRejected(key)
           THEN [w |-> w,
                 r |-> [r EXCEPT !.pc = "done", !.outcome = "Http404"]]
           ELSE [w |-> w,
                 r |-> [r EXCEPT !.pc = "exists",
                                 !.comment =
                                     <<signed_loads(key, COMMENTS_XTD_SALT)>>]]
      [] r.pc = "exists" ->
           IF _comment_exists(w.table, r.comment[1])
           THEN [w |-> w,
                 r |-> [r EXCEPT !.pc = "done", !.outcome = "Http404",
                                 !.events = Append(@, "query")]]
           ELSE [w |-> w,
                 r |-> [r EXCEPT !.pc = "signal",
                                 !.events = Append(@, "query")]]
      [] r.pc = "signal" ->
           IF SomeReceiverDiscards(r.responses)
           THEN [w |-> [w EXCEPT !.discarded = @ \cup {key}],
                 r |-> [r EXCEPT !.pc = "done", !.outcome = "discarded",
                                 !.signal = TRUE,
                                 !.events = Append(@, "signal")]]
           ELSE [w |-> w,
                 r |-> [r EXCEPT !.pc = "create", !.signal = TRUE,
                                 !.events = Append(@, "signal")]]
      [] r.pc = "create" ->
           LET tbl == _create_comment(w.table, r.comment[1]) IN
           [w |-> [w EXCEPT !.table = tbl],
            r |-> [r EXCEPT !.pc = "notify", !.new = Len(tbl),
                            !.events = Append(@, "save")]]
      [] r.pc = "notify" ->
           LET mails == notify_comment_followers(w.table, w.table[r.new]) IN
           [w |-> [w EXCEPT !.rounds = Append(@, r.new),
                            !.confirmed = @ \cup {key}],
            r |-> [r EXCEPT !.pc = "done", !.outcome = "redirect",
                            !.followups = mails,
                            !.events = @ \o Mailed(mails)]]

Step(w, r) ==
    IF r.kind = "post" THEN on_comment_was_posted_step(w, r)
    ELSE confirm_step(w, r)

\* A handler run from its first statement to its return.
RECURSIVE Run(_, _)
Run(w, r) ==
    IF r.pc = "done" THEN [w |-> w, r |-> r]
    ELSE LET s == Step(w, r) IN Run(s.w, s.r)

\* What is kept of a completed request: the receivers' responses are
\* reduced to whether one of them was False.
Completed(r) ==
    [kind |-> r.kind, comment |-> r.comment, key |-> r.key,
     some_false |-> (\E i \in 1..Len(r.responses) : r.responses[i] = "False"),
     new |-> r.new, outcome |-> r.outcome, signal |-> r.signal,
     requests |-> r.requests, followups |-> r.followups,
     events |-> r.events]

ResponseLists == [1..Len(Receivers) -> Responses]

\* The keys a confirm request can carry.
Keys ==
    issued \cup UNION { Tampered(k) : k \in issued }
           \cup { Garbage(k.payload) : k \in issued }

---------------------------------------------------------------------------
\* Spec: one handler at a time, each run to completion.

Init ==
    /\ COMMENTS_XTD_CONFIRM_EMAIL \in BOOLEAN
    /\ table = <<>>
    /\ issued = {}
    /\ confirmed = {}
    /\ discarded = {}
    /\ rounds = <<>>
    /\ last = Completed(Idle)
    /\ inflight = [p \in Workers |-> Idle]
    /\ nops = 0

Finish(s) ==
    /\ table' = s.w.table
    /\ issued' = s.w.issued
    /\ confirmed' = s.w.confirmed
    /\ discarded' = s.w.discarded
    /\ rounds' = s.w.rounds
    /\ last' = Completed(s.r)

on_comment_was_posted ==
    /\ nops < MaxOps
    /\ \E comment \in Comments :
           Finish(Run(World, Request("post", <<comment>>, <<>>, <<>>)))
    /\ nops' = nops + 1
    /\ UNCHANGED <<COMMENTS_XTD_CONFIRM_EMAIL, inflight>>

confirm ==
    /\ nops < MaxOps
    /\ \E key \in Keys, responses \in ResponseLists :
           Finish(Run(World, Request("confirm", <<>>, <<key>>, responses)))
    /\ nops' = nops + 1
    /\ UNCHANGED <<COMMENTS_XTD_CONFIRM_EMAIL, inflight>>

Next == on_comment_was_posted \/ confirm

Spec == Init /\ [][Next]_vars

---------------------------------------------------------------------------
\* SpecNotify: notify_comment_followers applied to a row of an arbitrary
\* table (rows hidden by a moderator and rows of other objects included).

NotifyPks == {1, 2}

NotifyComments ==
    { c \in CommentsOver({None}, NotifyPks, BOOLEAN) :
          /\ c.submit_date = 1
          /\ c.content_type = "blog.entry" \/ c.object_pk = 1 }

InitNotify ==
    /\ COMMENTS_XTD_CONFIRM_EMAIL = TRUE
    /\ \E n \in 0..MaxTable : \E f \in [1..n -> NotifyComments] :
           table = [i \in 1..n |-> XtdComment(f[i], i)]
    /\ issued = {}
    /\ confirmed = {}
    /\ discarded = {}
    /\ rounds = <<>>
    /\ last = Completed(Idle)
    /\ inflight = [p \in Workers |-> Idle]
    /\ nops = 0

\* One call notify_comment_followers(comment), comment a row of the table.
notify_call ==
    /\ last.kind = "idle"
    /\ \E id \in 1..Len(table) :
           LET mails == notify_comment_followers(table, table[id]) IN
           last' = Completed([Request("notify", <<>>, <<>>, <<>>) EXCEPT
                                 !.pc = "done", !.new = id,
                                 !.outcome = "notified",
                                 !.followups = mails,
                                 !.events = Mailed(mails)])
    /\ UNCHANGED <<COMMENTS_XTD_CONFIRM_EMAIL, table, issued, confirmed,
                   discarded, rounds, inflight, nops>>

NextNotify == notify_call

SpecNotify == InitNotify /\ [][NextNotify]_vars

---------------------------------------------------------------------------
\* SpecConc: the host framework handles up to two requests at once; the
\* statement groups of one request interleave with those of the other.

ConcComments ==
    { c \in Comments : c.submit_date = 1 /\ c.content_type = "blog.entry" }

ConcResponses == { <<"None", "True">>, <<"None", "False">> }

begin_post(p) ==
    /\ nops < MaxOps
    /\ inflight[p].pc = "done"
    /\ \E comment \in ConcComments :
           inflight' = [inflight EXCEPT
                           ![p] = Request("post", <<comment>>, <<>>, <<>>)]
    /\ nops' = nops + 1
    /\ UNCHANGED <<COMMENTS_XTD_CONFIRM_EMAIL, table, issued, confirmed,
                   discarded, rounds, last>>

begin_confirm(p) ==
    /\ nops < MaxOps
    /\ inflight[p].pc = "done"
    /\ \E key \in Keys, responses \in ConcResponses :
           inflight' = [inflight EXCEPT
                           ![p] = Request("confirm", <<>>, <<key>>, responses)]
    /\ nops' = nops + 1
    /\ UNCHANGED <<COMMENTS_XTD_CONFIRM_EMAIL, table, issued, confirmed,
                   discarded, rounds, last>>

\* Worker p runs the next statement group of its request.
step(p) ==
    /\ inflight[p].pc # "done"
    /\ LET s == Step(World, inflight[p]) IN
           /\ table' = s.w.table
           /\ issued' = s.w.issued
           /\ confirmed' = s.w.confirmed
           /\ discarded' = s.w.discarded
           /\ rounds' = s.w.rounds
           /\ IF s.r.pc = "done"
              THEN /\ last' = Completed(s.r)
                   /\ inflight' = [inflight EXCEPT ![p] = Idle]
              ELSE /\ last' = last
                   /\ inflight' = [inflight EXCEPT ![p] = s.r]
    /\ UNCHANGED <<COMMENTS_XTD_CONFIRM_EMAIL, nops>>

NextConc == \E p \in Workers : begin_post(p) \/ begin_confirm(p) \/ step(p)

SpecConc == Init /\ [][NextConc]_vars

---------------------------------------------------------------------------
\* Vocabulary of the properties (independent of the operators above).

TripleOf(x) == <<x.user_name, x.user_email, x.submit_date>>

HasTriple(tbl, comment) ==
    \E i \in 1..Len(tbl) : TripleOf(tbl[i]) = TripleOf(comment)

SameFields(row, comment) ==
    /\ row.user = comment.user
    /\ row.user_name = comment.user_name
    /\ row.user_email = comment.user_email
    /\ row.submit_date = comment.submit_date
    /\ row.content_type = comment.content_type
    /\ row.object_pk = comment.object_pk
    /\ row.comment = comment.comment
    /\ row.followup = comment.followup

\* The comment is one that must be confirmed by mail.
MustConfirm(x) == x.user = None /\ COMMENTS_XTD_CONFIRM_EMAIL

\* tbl2 is tbl with one row added, which carries the comment's fields.
AddsRowFor(tbl, tbl2, comment) ==
    /\ Len(tbl2) = Len(tbl) + 1
    /\ SubSeq(tbl2, 1, Len(tbl)) = tbl
    /\ SameFields(tbl2[Len(tbl2)], comment)
    /\ tbl2[Len(tbl2)].is_public = TRUE
    /\ tbl2[Len(tbl2)].id = Len(tbl2)

Recipients(mails) == UNION { { m.to[i] : i \in 1..Len(m.to) } : m \in Rows(mails) }

SaveBeforeMail(events) ==
    /\ Cardinality({ i \in 1..Len(events) : events[i] = "save" }) = 1
    /\ \A i \in 1..Len(events) :
           events[i] = "followup_mail" =>
               \E j \in 1..(i - 1) : events[j] = "save"

\* Notification rounds run for rows with the triple of the comment.
RoundsFor(rnds, tbl, comment) ==
    Cardinality({ i \in 1..Len(rnds) : TripleOf(tbl[rnds[i]]) = TripleOf(comment) })

NoMailNoRow ==
    /\ table' = table
    /\ rounds' = rounds
    /\ last'.followups = <<>>
    /\ last'.new = 0

---------------------------------------------------------------------------
\* C1: a comment of an authenticated user, or any comment while
\* COMMENTS_XTD_CONFIRM_EMAIL is False, is posted when on_comment_was_posted
\* returns: a public row with the comment's own fields exists and no
\* confirmation request was mailed, whatever the table held before.
C1_PostedWhenHandlerReturns ==
    (last.kind = "post" /\ ~MustConfirm(last.comment[1])) =>
        /\ \E i \in 1..Len(table) :
               SameFields(table[i], last.comment[1]) /\ table[i].is_public = TRUE
        /\ last.requests = <<>>

\* C2: a comment that must be confirmed is held by the post: no row, no
\* follower mail, exactly one confirmation request, to comment.user_email
\* only, whose key loads back to the comment; and a row of such a comment
\* is in the table only if a confirm request with its key has succeeded.
C2_HeldUntilConfirmed ==
    [][ /\ (last'.kind = "post" /\ MustConfirm(last'.comment[1])) =>
               /\ NoMailNoRow
               /\ last'.outcome = "held"
               /\ Len(last'.requests) = 1
               /\ last'.requests[1].to = <<last'.comment[1].user_email>>
               /\ signed_loads_error(last'.requests[1].key,
                                     COMMENTS_XTD_SALT) = "ok"
               /\ signed_loads(last'.requests[1].key, COMMENTS_XTD_SALT)
                      = last'.comment[1]
               /\ last'.requests[1].key \in issued'
        /\ \A i \in 1..Len(table') :
               MustConfirm(table'[i]) =>
                   \E k \in confirmed' : SameFields(table'[i], k.payload)
      ]_vars

C2_Witness ==
    /\ last.kind = "post"
    /\ last.outcome = "held"
    /\ \E i \in 1..Len(table) : MustConfirm(table[i])

\* C3: confirm with the issued key of a held comment that has no matching
\* row, no receiver returning False, adds exactly one public row with the
\* comment's fields, runs one notification round for it after the save,
\* and redirects to it.
C3_ConfirmCreates ==
    [][ ( /\ last'.kind = "confirm"
          /\ last'.key[1] \in issued
          /\ ~HasTriple(table, last'.key[1].payload)
          /\ ~last'.some_false ) =>
            /\ AddsRowFor(table, table', last'.key[1].payload)
            /\ rounds' = Append(rounds, Len(table'))
            /\ last'.new = Len(table')
            /\ last'.outcome = "redirect"
            /\ last'.signal
            /\ SaveBeforeMail(last'.events)
            /\ last'.requests = <<>>
      ]_vars

C3_Witness ==
    /\ last.kind = "confirm"
    /\ last.outcome = "redirect"
    /\ Len(last.followups) > 0
    /\ ~last.some_false

\* C4: confirm with a key that signed.loads rejects ends in Http404 and
\* changes nothing: no row, no signal, no mail.
C4_BadKeyIs404 ==
    [][ ( /\ last'.kind = "confirm"
          /\ signed_loads_error(last'.key[1], COMMENTS_XTD_SALT) # "ok" ) =>
            /\ last'.outcome = "Http404"
            /\ NoMailNoRow
            /\ ~last'.signal
            /\ last'.requests = <<>>
            /\ issued' = issued
            /\ confirmed' = confirmed
            /\ discarded' = discarded
      ]_vars

C4_Witness ==
    /\ last.kind = "confirm"
    /\ last.outcome = "Http404"
    /\ last.key[1].wellformed
    /\ last.key[1].sig # <<COMMENTS_XTD_SALT, last.key[1].payload>>
    /\ Len(table) > 0

\* C5: after a confirm request with a key has succeeded, a confirm request
\* with that key ends in Http404 without signal, row or mail; a confirmed
\* key has exactly one row and exactly one notification round.
C5_ConfirmedUrlRejected ==
    [][ /\ (last'.kind = "confirm" /\ last'.key[1] \in confirmed) =>
               /\ last'.outcome = "Http404"
               /\ ~last'.signal
               /\ NoMailNoRow
        /\ \A k \in confirmed' :
               /\ Cardinality({ i \in 1..Len(table') :
                                   TripleOf(table'[i]) = TripleOf(k.payload) }) = 1
               /\ RoundsFor(rounds', table', k.payload) = 1
      ]_vars

C5_Witness ==
    /\ last.kind = "confirm"
    /\ last.outcome = "Http404"
    /\ last.key[1] \in confirmed

\* C6: a follow-up mail goes only to the user_email of an earlier comment on
\* the very same target object (same content type and same object_pk) as
\* the new comment.
C6_OnlySameThread ==
    last.kind \in {"post", "confirm"} =>
        \A e \in Recipients(last.followups) :
            \E i \in 1..Len(table) :
                /\ i # last.new
                /\ table[i].user_email = e
                /\ table[i].content_type = table[last.new].content_type
                /\ table[i].object_pk = table[last.new].object_pk

\* C7: one call of notify_comment_followers mails exactly the distinct
\* user_email values of the other rows that are public, follow up and have
\* the new comment's object_pk, one mail per address, and leaves the table
\* as it was.
C7_NotifiesFollowersOnce ==
    [][ last'.kind = "notify" =>
            LET new == last'.new
                expected ==
                    { table[i].user_email : i \in
                        { j \in 1..Len(table) :
                            /\ j # new
                            /\ table[j].is_public = TRUE
                            /\ table[j].followup = TRUE
                            /\ table[j].object_pk = table[new].object_pk } }
            IN  /\ Recipients(last'.followups) = expected
                /\ Len(last'.followups) = Cardinality(expected)
                /\ \A i \in 1..Len(last'.followups) :
                       Len(last'.followups[i].to) = 1
                /\ table' = table
      ]_vars

C7_Witness ==
    /\ last.kind = "notify"
    /\ Len(last.followups) = 1
    /\ \E i, j \in 1..Len(table) :
           /\ i # j /\ i # last.new /\ j # last.new
           /\ table[i].user_email = table[j].user_email
           /\ table[i].user_email \in Recipients(last.followups)
           /\ table[j].is_public /\ table[j].followup
           /\ table[j].object_pk = table[last.new].object_pk
           /\ table[j].content_type # table[last.new].content_type

\* C8: a receiver returning False discards the comment for that request
\* (no row, no mail, table unchanged); a later confirm with the same key,
\* the table still holding no matching row, sends the signal again and
\* creates the comment unless a receiver returns False again.
C8_DiscardLeavesKeyUsable ==
    [][ /\ ( /\ last'.kind = "confirm"
             /\ last'.key[1] \in issued
             /\ ~HasTriple(table, last'.key[1].payload)
             /\ last'.some_false ) =>
               /\ last'.outcome = "discarded"
               /\ last'.signal
               /\ NoMailNoRow
               /\ ~HasTriple(table', last'.key[1].payload)
        /\ ( /\ last'.kind = "confirm"
             /\ last'.key[1] \in discarded
             /\ ~HasTriple(table, last'.key[1].payload) ) =>
               /\ last'.outcome # "Http404"
               /\ last'.signal
               /\ ~last'.some_false =>
                      /\ AddsRowFor(table, table', last'.key[1].payload)
                      /\ last'.outcome = "redirect"
      ]_vars

C8_Witness ==
    /\ last.kind = "confirm"
    /\ last.outcome = "redirect"
    /\ last.key[1] \in discarded

\* C9: with the handlers run one after the other from an empty table, no
\* two rows share (user_name, user_email, submit_date), and a handler
\* whose query finds a row with the comment's triple adds no row and sends
\* no follower mail.
C9_OneRowPerTriple ==
    [][ /\ \A i, j \in 1..Len(table') :
               TripleOf(table'[i]) = TripleOf(table'[j]) => i = j
        /\ ( /\ last'.kind \in {"post", "confirm"}
             /\ last'.comment # <<>>
             /\ \E n \in 1..Len(last'.events) : last'.events[n] = "query"
             /\ HasTriple(table, last'.comment[1]) ) =>
               NoMailNoRow
      ]_vars

C9_Witness ==
    /\ last.kind = "post"
    /\ last.outcome = "exists"
    /\ Len(table) > 1

\* C10: also with the steps of concurrent requests interleaved, no two rows
\* share (user_name, user_email, submit_date) and followers are notified at
\* most once for a comment.
C10_OneRowPerTripleInterleaved ==
    /\ \A i, j \in 1..Len(table) :
           TripleOf(table[i]) = TripleOf(table[j]) => i = j
    /\ \A i, j \in 1..Len(rounds) :
           TripleOf(table[rounds[i]]) = TripleOf(table[rounds[j]]) => i = j

====
